---- MODULE Spec2Model ----
(***************************************************************************)
(* A model of sure-financials.py: the credit-card statement parser.        *)
(*                                                                         *)
(* A Python str is a sequence of one-character strings.  A field value is  *)
(* such a sequence, or None (the one-element sequence <<"None">>, which no *)
(* text equals because "None" is not a character).  A raised exception is  *)
(* the sequence <<"raise", class, message>>.                               *)
(***************************************************************************)
EXTENDS Integers, Sequences, FiniteSets, TLC

\* ------------------------------------------------------------ characters

NL == "\n"

LowerLetters == <<"a","b","c","d","e","f","g","h","i","j","k","l","m",
                  "n","o","p","q","r","s","t","u","v","w","x","y","z">>

UpperLetters == <<"A","B","C","D","E","F","G","H","I","J","K","L","M",
                  "N","O","P","Q","R","S","T","U","V","W","X","Y","Z">>

Letter == {LowerLetters[k] : k \in 1..26} \cup {UpperLetters[k] : k \in 1..26}

\* \d
Digit == {"0","1","2","3","4","5","6","7","8","9"}

\* \s (the whitespace that occurs in the texts of the model)
Space == {" ", NL}

Punct == {":", "-", "/", ".", ",", "$"}

Alphabet == Letter \cup Digit \cup Space \cup Punct

\* . (re without DOTALL: any character but the newline)
Dot == Alphabet \ {NL}

\* str.upper(), one character
UpperChar == [ch \in Alphabet |->
                IF \E k \in 1..26 : LowerLetters[k] = ch
                THEN UpperLetters[CHOOSE k \in 1..26 : LowerLetters[k] = ch]
                ELSE ch]

LowerChar == [ch \in Alphabet |->
                IF \E k \in 1..26 : UpperLetters[k] = ch
                THEN LowerLetters[CHOOSE k \in 1..26 : UpperLetters[k] = ch]
                ELSE ch]

\* str.upper()
Upper(s) == [k \in 1..Len(s) |-> UpperChar[s[k]]]

\* str.lower()
Lower(s) == [k \in 1..Len(s) |-> LowerChar[s[k]]]

\* the literal lit occurs in s at position pos
At(lit, s, pos) ==
    /\ pos + Len(lit) - 1 <= Len(s)
    /\ \A k \in 1..Len(lit) : s[pos + k - 1] = lit[k]

\* Python's `lit in s`
Contains(s, lit) == \E pos \in 1..(Len(s) - Len(lit) + 1) : At(lit, s, pos)

\* the string literals of the program and of the documents, decoded
Chars ==
   "" :> <<>> @@
   " " :> <<" ">> @@
   "$" :> <<"$">> @@
   "'NoneType' object has no attribute 'group'" :> <<"'","N","o","n","e","T","y","p","e","'"," ","o","b","j","e","c","t"," ","h","a","s"," ","n","o"," ","a","t","t","r","i","b","u","t","e"," ","'","g","r","o","u","p","'">> @@
   "-" :> <<"-">> @@
   "." :> <<".">> @@
   "/" :> <<"/">> @@
   "12,345.67" :> <<"1","2",",","3","4","5",".","6","7">> @@
   ":" :> <<":">> @@
   "AMEX" :> <<"A","M","E","X">> @@
   "Account" :> <<"A","c","c","o","u","n","t">> @@
   "Account ending in 1234" :> <<"A","c","c","o","u","n","t"," ","e","n","d","i","n","g"," ","i","n"," ","1","2","3","4">> @@
   "Amazon" :> <<"A","m","a","z","o","n">> @@
   "American Express" :> <<"A","m","e","r","i","c","a","n"," ","E","x","p","r","e","s","s">> @@
   "Amex" :> <<"A","m","e","x">> @@
   "Amex " :> <<"A","m","e","x"," ">> @@
   "Amex Card" :> <<"A","m","e","x"," ","C","a","r","d">> @@
   "AmexParser" :> <<"A","m","e","x","P","a","r","s","e","r">> @@
   "Amount" :> <<"A","m","o","u","n","t">> @@
   "Aurum" :> <<"A","u","r","u","m">> @@
   "Balance" :> <<"B","a","l","a","n","c","e">> @@
   "Bank not detected. Supported: HDFC, Chase, SBI, Amex, Citi" :> <<"B","a","n","k"," ","n","o","t"," ","d","e","t","e","c","t","e","d","."," ","S","u","p","p","o","r","t","e","d",":"," ","H","D","F","C",","," ","C","h","a","s","e",","," ","S","B","I",","," ","A","m","e","x",","," ","C","i","t","i">> @@
   "Blue Cash" :> <<"B","l","u","e"," ","C","a","s","h">> @@
   "Business MoneyBack" :> <<"B","u","s","i","n","e","s","s"," ","M","o","n","e","y","B","a","c","k">> @@
   "CHASE" :> <<"C","H","A","S","E">> @@
   "Card" :> <<"C","a","r","d">> @@
   "Card 1234 5678" :> <<"C","a","r","d"," ","1","2","3","4"," ","5","6","7","8">> @@
   "Chase" :> <<"C","h","a","s","e">> @@
   "Chase " :> <<"C","h","a","s","e"," ">> @@
   "Chase Bank" :> <<"C","h","a","s","e"," ","B","a","n","k">> @@
   "Chase Credit Card" :> <<"C","h","a","s","e"," ","C","r","e","d","i","t"," ","C","a","r","d">> @@
   "ChaseParser" :> <<"C","h","a","s","e","P","a","r","s","e","r">> @@
   "Citi" :> <<"C","i","t","i">> @@
   "Citi " :> <<"C","i","t","i"," ">> @@
   "Citi Card" :> <<"C","i","t","i"," ","C","a","r","d">> @@
   "CitiParser" :> <<"C","i","t","i","P","a","r","s","e","r">> @@
   "Citibank" :> <<"C","i","t","i","b","a","n","k">> @@
   "Closing" :> <<"C","l","o","s","i","n","g">> @@
   "Closing Date Jan 5, 2024" :> <<"C","l","o","s","i","n","g"," ","D","a","t","e"," ","J","a","n"," ","5",","," ","2","0","2","4">> @@
   "Closing Date: " :> <<"C","l","o","s","i","n","g"," ","D","a","t","e",":"," ">> @@
   "Date" :> <<"D","a","t","e">> @@
   "Date: 20/05/2024" :> <<"D","a","t","e",":"," ","2","0","/","0","5","/","2","0","2","4">> @@
   "Debits" :> <<"D","e","b","i","t","s">> @@
   "Debits 1,000.00" :> <<"D","e","b","i","t","s"," ","1",",","0","0","0",".","0","0">> @@
   "Diners Club" :> <<"D","i","n","e","r","s"," ","C","l","u","b">> @@
   "Double Cash" :> <<"D","o","u","b","l","e"," ","C","a","s","h">> @@
   "Due" :> <<"D","u","e">> @@
   "Elite" :> <<"E","l","i","t","e">> @@
   "Ends on " :> <<"E","n","d","s"," ","o","n"," ">> @@
   "Error reading PDF: " :> <<"E","r","r","o","r"," ","r","e","a","d","i","n","g"," ","P","D","F",":"," ">> @@
   "EveryDay" :> <<"E","v","e","r","y","D","a","y">> @@
   "FC Payment Due" :> <<"F","C"," ","P","a","y","m","e","n","t"," ","D","u","e">> @@
   "FREEDOM" :> <<"F","R","E","E","D","O","M">> @@
   "Freedom" :> <<"F","r","e","e","d","o","m">> @@
   "Gold" :> <<"G","o","l","d">> @@
   "Green" :> <<"G","r","e","e","n">> @@
   "H.D.F.C" :> <<"H",".","D",".","F",".","C">> @@
   "HD" :> <<"H","D">> @@
   "HDFC" :> <<"H","D","F","C">> @@
   "HDFC " :> <<"H","D","F","C"," ">> @@
   "HDFC Bank" :> <<"H","D","F","C"," ","B","a","n","k">> @@
   "HDFC Credit Card" :> <<"H","D","F","C"," ","C","r","e","d","i","t"," ","C","a","r","d">> @@
   "HDFCParser" :> <<"H","D","F","C","P","a","r","s","e","r">> @@
   "Infinia" :> <<"I","n","f","i","n","i","a">> @@
   "Ink" :> <<"I","n","k">> @@
   "JPMORGAN" :> <<"J","P","M","O","R","G","A","N">> @@
   "JPMorgan" :> <<"J","P","M","o","r","g","a","n">> @@
   "Millennia" :> <<"M","i","l","l","e","n","n","i","a">> @@
   "MoneyBack" :> <<"M","o","n","e","y","B","a","c","k">> @@
   "New" :> <<"N","e","w">> @@
   "New Balance $500.00" :> <<"N","e","w"," ","B","a","l","a","n","c","e"," ","$","5","0","0",".","0","0">> @@
   "New Charges: $" :> <<"N","e","w"," ","C","h","a","r","g","e","s",":"," ","$">> @@
   "New charges $45.00" :> <<"N","e","w"," ","c","h","a","r","g","e","s"," ","$","4","5",".","0","0">> @@
   "No /Root object" :> <<"N","o"," ","/","R","o","o","t"," ","o","b","j","e","c","t">> @@
   "No such file or directory" :> <<"N","o"," ","s","u","c","h"," ","f","i","l","e"," ","o","r"," ","d","i","r","e","c","t","o","r","y">> @@
   "Number" :> <<"N","u","m","b","e","r">> @@
   "Opening/Closing" :> <<"O","p","e","n","i","n","g","/","C","l","o","s","i","n","g">> @@
   "Opening/Closing Date 01/01/22 - 01/31/22" :> <<"O","p","e","n","i","n","g","/","C","l","o","s","i","n","g"," ","D","a","t","e"," ","0","1","/","0","1","/","2","2"," ","-"," ","0","1","/","3","1","/","2","2">> @@
   "PRIME" :> <<"P","R","I","M","E">> @@
   "Payment" :> <<"P","a","y","m","e","n","t">> @@
   "Payment Due Date 1/5/22" :> <<"P","a","y","m","e","n","t"," ","D","u","e"," ","D","a","t","e"," ","1","/","5","/","2","2">> @@
   "Payment Due Date 20/05/2024" :> <<"P","a","y","m","e","n","t"," ","D","u","e"," ","D","a","t","e"," ","2","0","/","0","5","/","2","0","2","4">> @@
   "Payment Due Date Feb 01, 2024" :> <<"P","a","y","m","e","n","t"," ","D","u","e"," ","D","a","t","e"," ","F","e","b"," ","0","1",","," ","2","0","2","4">> @@
   "Payment Due Date: 20/05/2024" :> <<"P","a","y","m","e","n","t"," ","D","u","e"," ","D","a","t","e",":"," ","2","0","/","0","5","/","2","0","2","4">> @@
   "Payment Due Date: 20/05/24" :> <<"P","a","y","m","e","n","t"," ","D","u","e"," ","D","a","t","e",":"," ","2","0","/","0","5","/","2","4">> @@
   "Platinum" :> <<"P","l","a","t","i","n","u","m">> @@
   "Premier" :> <<"P","r","e","m","i","e","r">> @@
   "Prestige" :> <<"P","r","e","s","t","i","g","e">> @@
   "Prime" :> <<"P","r","i","m","e">> @@
   "Purchases" :> <<"P","u","r","c","h","a","s","e","s">> @@
   "Purchases $1,200.50" :> <<"P","u","r","c","h","a","s","e","s"," ","$","1",",","2","0","0",".","5","0">> @@
   "Purchases $1.00" :> <<"P","u","r","c","h","a","s","e","s"," ","$","1",".","0","0">> @@
   "Purchases: $" :> <<"P","u","r","c","h","a","s","e","s",":"," ","$">> @@
   "Regalia" :> <<"R","e","g","a","l","i","a">> @@
   "Rewards" :> <<"R","e","w","a","r","d","s">> @@
   "SBI " :> <<"S","B","I"," ">> @@
   "SBI Card" :> <<"S","B","I"," ","C","a","r","d">> @@
   "SBI Credit Card" :> <<"S","B","I"," ","C","r","e","d","i","t"," ","C","a","r","d">> @@
   "SBIParser" :> <<"S","B","I","P","a","r","s","e","r">> @@
   "Sapphire" :> <<"S","a","p","p","h","i","r","e">> @@
   "Simplicity" :> <<"S","i","m","p","l","i","c","i","t","y">> @@
   "SimplyClick" :> <<"S","i","m","p","l","y","C","l","i","c","k">> @@
   "SimplySave" :> <<"S","i","m","p","l","y","S","a","v","e">> @@
   "Slate" :> <<"S","l","a","t","e">> @@
   "Standard Credit Card" :> <<"S","t","a","n","d","a","r","d"," ","C","r","e","d","i","t"," ","C","a","r","d">> @@
   "State Bank of India" :> <<"S","t","a","t","e"," ","B","a","n","k"," ","o","f"," ","I","n","d","i","a">> @@
   "Statement" :> <<"S","t","a","t","e","m","e","n","t">> @@
   "Statement Date 01/05/2024" :> <<"S","t","a","t","e","m","e","n","t"," ","D","a","t","e"," ","0","1","/","0","5","/","2","0","2","4">> @@
   "Statement Date: " :> <<"S","t","a","t","e","m","e","n","t"," ","D","a","t","e",":"," ">> @@
   "Statement Date: 01/05/2024" :> <<"S","t","a","t","e","m","e","n","t"," ","D","a","t","e",":"," ","0","1","/","0","5","/","2","0","2","4">> @@
   "Statement generated on " :> <<"S","t","a","t","e","m","e","n","t"," ","g","e","n","e","r","a","t","e","d"," ","o","n"," ">> @@
   "Summary not detected" :> <<"S","u","m","m","a","r","y"," ","n","o","t"," ","d","e","t","e","c","t","e","d">> @@
   "Total" :> <<"T","o","t","a","l">> @@
   "Total Amount Due 12,345.67" :> <<"T","o","t","a","l"," ","A","m","o","u","n","t"," ","D","u","e"," ","1","2",",","3","4","5",".","6","7">> @@
   "Total Debits: " :> <<"T","o","t","a","l"," ","D","e","b","i","t","s",":"," ">> @@
   "Total Purchases: $" :> <<"T","o","t","a","l"," ","P","u","r","c","h","a","s","e","s",":"," ","$">> @@
   "Unknown Bank" :> <<"U","n","k","n","o","w","n"," ","B","a","n","k">> @@
   "XXXX" :> <<"X","X","X","X">> @@
   "XXXX 1234" :> <<"X","X","X","X"," ","1","2","3","4">> @@
   "XXXXXXXX1234" :> <<"X","X","X","X","X","X","X","X","1","2","3","4">> @@
   "and Adjustments" :> <<"a","n","d"," ","A","d","j","u","s","t","m","e","n","t","s">> @@
   "charges" :> <<"c","h","a","r","g","e","s">> @@
   "ending" :> <<"e","n","d","i","n","g">> @@
   "ending in 12345" :> <<"e","n","d","i","n","g"," ","i","n"," ","1","2","3","4","5">> @@
   "gold" :> <<"g","o","l","d">> @@
   "hdfc" :> <<"h","d","f","c">> @@
   "in" :> <<"i","n">> @@
   "page stream is corrupt" :> <<"p","a","g","e"," ","s","t","r","e","a","m"," ","i","s"," ","c","o","r","r","u","p","t">> @@
   "regalia" :> <<"r","e","g","a","l","i","a">> @@
   "rewards" :> <<"r","e","w","a","r","d","s">> @@
   "thinking" :> <<"t","h","i","n","k","i","n","g">> @@
   "unsupported operand type(s) for +: 'NoneType' and 'str'" :> <<"u","n","s","u","p","p","o","r","t","e","d"," ","o","p","e","r","a","n","d"," ","t","y","p","e","(","s",")"," ","f","o","r"," ","+",":"," ","'","N","o","n","e","T","y","p","e","'"," ","a","n","d"," ","'","s","t","r","'">>

\* a Python string literal as a sequence of characters
S(lit) == Chars[lit]

\* -------------------------------------------------- regular expressions
\* A pattern is [items, grp]: a sequence of items matched one after the
\* other, the capturing group 1 opening before item grp and closing at the
\* end of the pattern (every pattern of the program ends with its group).
\* An item is a quantified character class, [set, min, max, unb, lazy]
\* (unb: no upper limit), or a non-capturing group of literal alternatives,
\* [alts, opt] (opt: followed by ?).  re.IGNORECASE is applied when the
\* pattern is built: a class is closed under case, and so is each
\* alternative's comparison.

CaseClose(set) == set \cup {UpperChar[ch] : ch \in set} \cup {LowerChar[ch] : ch \in set}

Cls(set, min, max) ==
    <<[t |-> "cls", set |-> set, min |-> min, max |-> max, unb |-> FALSE, lazy |-> FALSE]>>

\* set+  and  set*  (min 1 and 0), greedy
Many(set, min) ==
    <<[t |-> "cls", set |-> set, min |-> min, max |-> 0, unb |-> TRUE, lazy |-> FALSE]>>

\* set*?
ManyLazy(set) ==
    <<[t |-> "cls", set |-> set, min |-> 0, max |-> 0, unb |-> TRUE, lazy |-> TRUE]>>

\* (?:a|b) and (?:a|b)?
Alt(alts, opt) == <<[t |-> "alt", alts |-> alts, opt |-> opt, icase |-> FALSE]>>

\* a run of literal characters
Lit(lit) == Alt(<<lit>>, FALSE)

\* re.IGNORECASE on a sequence of items
IgnoreCase(items) ==
    [k \in 1..Len(items) |->
        IF items[k].t = "cls"
        THEN [items[k] EXCEPT !.set = CaseClose(@)]
        ELSE [items[k] EXCEPT !.icase = TRUE, !.alts = [a \in 1..Len(@) |-> Upper(@[a])]]]

NoMatch == [ok |-> FALSE]

Min(a, b) == IF a < b THEN a ELSE b

Least(set) == CHOOSE k \in set : \A j \in set : k <= j

Greatest(set) == CHOOSE k \in set : \A j \in set : k >= j

\* the number of characters of s from pos on that are in set, at most cap
RunLen(set, s, pos, cap) ==
    Greatest({n \in 0..Min(cap, Len(s) - pos + 1) : \A k \in 0..(n - 1) : s[pos + k] \in set})

\* the alternative lit of item it occurs in s at pos
AltAt(it, lit, s, pos) ==
    /\ pos + Len(lit) - 1 <= Len(s)
    /\ \A k \in 1..Len(lit) :
          (IF it.icase THEN UpperChar[s[pos + k - 1]] ELSE s[pos + k - 1]) = lit[k]

\* The backtracking matcher: the first way, in the order re tries them, to
\* match items k.. of pattern p at position pos of s; gs is where group 1
\* opened.  The ways to match item k are numbered in the order re tries
\* them, and the first one after which the rest of the pattern matches is
\* taken.
RECURSIVE MatchFrom(_, _, _, _, _)

\* a quantified class: the counts from the longest run down to it.min
\* (greedy), or from it.min up (lazy)
TryCount(p, k, s, pos, g, run) ==
    LET it == p.items[k]
        tries == {[n |-> n, m |-> MatchFrom(p, k + 1, s, pos + n, g)] : n \in it.min..run}
        oks == {n \in it.min..run : \E t \in tries : t.n = n /\ t.m.ok}
        n == IF it.lazy THEN Least(oks) ELSE Greatest(oks) IN
    IF oks = {} THEN NoMatch
    ELSE (CHOOSE t \in tries : t.n = n).m

\* a group of alternatives: each alternative in turn, and after the last
\* one the empty match of an optional group
TryAlt(p, k, s, pos, g) ==
    LET it == p.items[k]
        last == Len(it.alts) + (IF it.opt THEN 1 ELSE 0)
        tries == {[a |-> a,
                   m |-> IF a > Len(it.alts) THEN MatchFrom(p, k + 1, s, pos, g)
                         ELSE IF AltAt(it, it.alts[a], s, pos)
                              THEN MatchFrom(p, k + 1, s, pos + Len(it.alts[a]), g)
                              ELSE NoMatch] : a \in 1..last}
        oks == {a \in 1..last : \E t \in tries : t.a = a /\ t.m.ok} IN
    IF oks = {} THEN NoMatch
    ELSE (CHOOSE t \in tries : t.a = Least(oks)).m

MatchFrom(p, k, s, pos, gs) ==
    LET g == IF k = p.grp THEN pos ELSE gs IN
    IF k > Len(p.items) THEN [ok |-> TRUE, gs |-> g, end |-> pos]
    ELSE LET it == p.items[k] IN
         IF it.t = "cls"
         THEN LET run == RunLen(it.set, s, pos, IF it.unb THEN Len(s) ELSE it.max) IN
              IF run < it.min THEN NoMatch
              ELSE TryCount(p, k, s, pos, g, run)
         ELSE TryAlt(p, k, s, pos, g)

\* re.search(p, s): the match at the leftmost position that has one
Search(p, s) ==
    LET tries == {[start |-> start, m |-> MatchFrom(p, 1, s, start, start)] : start \in 1..(Len(s) + 1)}
        oks == {start \in 1..(Len(s) + 1) : \E t \in tries : t.start = start /\ t.m.ok} IN
    IF oks = {} THEN NoMatch
    ELSE (CHOOSE t \in tries : t.start = Least(oks)).m

\* match.group(1)
Group1(s, m) == SubSeq(s, m.gs, m.end - 1)

\* a pattern whose group 1 is its last part
Pattern(before, group) == [items |-> before \o group, grp |-> Len(before) + 1]

\* the same, compiled with re.IGNORECASE
PatternI(before, group) == [items |-> IgnoreCase(before \o group), grp |-> Len(before) + 1]

\* \s+  \s*  \s
Ws1 == Many(Space, 1)

Ws0 == Many(Space, 0)

Ws == Cls(Space, 1, 1)

\* [:\-\s]*
Sep == Many({":", "-"} \cup Space, 0)

\* \d{2}/\d{2}/\d{4}
Date224 == Cls(Digit, 2, 2) \o Lit(S("/")) \o Cls(Digit, 2, 2) \o Lit(S("/")) \o Cls(Digit, 4, 4)

\* \d{2}/\d{2}/\d{2,4}
Date22x == Cls(Digit, 2, 2) \o Lit(S("/")) \o Cls(Digit, 2, 2) \o Lit(S("/")) \o Cls(Digit, 2, 4)

\* \d{1,2}/\d{1,2}/\d{2,4}
Datexxx == Cls(Digit, 1, 2) \o Lit(S("/")) \o Cls(Digit, 1, 2) \o Lit(S("/")) \o Cls(Digit, 2, 4)

\* [A-Za-z]{3}\s\d{1,2},?\s\d{4}
DateMon == Cls(Letter, 3, 3) \o Ws \o Cls(Digit, 1, 2) \o Cls({","}, 0, 1) \o Ws \o Cls(Digit, 4, 4)

\* [\d,]+\.\d{2}
Amount == Many(Digit \cup {","}, 1) \o Lit(S(".")) \o Cls(Digit, 2, 2)

\* -------------------------------------------------------------- values

None == <<"None">>

Raise(cls, msg) == <<"raise", cls, msg>>

IsRaise(v) == Len(v) = 3 /\ v[1] = "raise"

\* `match.group(1)` without the `if match else None` guard
GroupOrNone_unguarded(p, text) ==
    LET match == Search(p, text) IN
    IF match.ok THEN Group1(text, match)
    ELSE Raise("AttributeError", "'NoneType' object has no attribute 'group'")

\* `match.group(1) if match else None`
GroupOrNone(p, text) ==
    LET match == Search(p, text) IN
    IF match.ok THEN Group1(text, match) ELSE None

\* `f"{caption}{match.group(1)}" if match else None`
CaptionOrNone(caption, p, text) ==
    LET match == Search(p, text) IN
    IF match.ok THEN S(caption) \o Group1(text, match) ELSE None

\* the first card of keywords with card.upper() in text.upper(), or 0
RECURSIVE FirstKeyword(_, _, _)
FirstKeyword(keywords, up, k) ==
    IF k > Len(keywords) THEN 0
    ELSE IF Contains(up, Upper(S(keywords[k]))) THEN k
    ELSE FirstKeyword(keywords, up, k + 1)

\* the loop with `card in self.text`, the letter case kept
VariantOf_case_sensitive(prefix, keywords, fallback, text) ==
    LET found == {k \in 1..Len(keywords) : Contains(text, S(keywords[k]))} IN
    IF found = {} THEN S(fallback) ELSE S(prefix) \o S(keywords[Least(found)])

\* the loop of extract_card_variant
VariantOf(prefix, keywords, fallback, text) ==
    LET k == FirstKeyword(keywords, Upper(text), 1) IN
    IF k = 0 THEN S(fallback) ELSE S(prefix) \o S(keywords[k])

\* ---------------------------------------------------------- HDFCParser

HDFC_keywords == <<"Infinia", "Regalia", "Millennia", "MoneyBack", "Diners Club", "Business MoneyBack">>

HDFC_last4_re == Pattern(Cls({"X"} \cup Digit, 8, 12), Cls(Digit, 4, 4))

HDFC_cycle_re == PatternI(Lit(S("Statement")) \o Ws1 \o Lit(S("Date")) \o Ws0 \o Sep, Date224)

HDFC_due_re ==
    PatternI(Lit(S("Payment")) \o Ws1 \o Lit(S("Due")) \o Ws1 \o Lit(S("Date")) \o Ws0 \o Sep, Date224)

HDFC_balance_re ==
    PatternI(Lit(S("Total")) \o Ws1 \o Lit(S("Amount")) \o Ws1 \o Lit(S("Due")) \o Ws0 \o Sep
             \o ManyLazy(Dot), Amount)

HDFC_debits_re == PatternI(Lit(S("Debits")) \o Ws1, Amount)

HDFCParser_extract_card_variant(text) == VariantOf("HDFC ", HDFC_keywords, "HDFC Credit Card", text)

HDFCParser_extract_card_last_4(text) == GroupOrNone(HDFC_last4_re, text)

HDFCParser_extract_billing_cycle(text) == CaptionOrNone("Ends on ", HDFC_cycle_re, text)

HDFCParser_extract_due_date(text) == GroupOrNone(HDFC_due_re, text)

HDFCParser_extract_total_balance(text) == GroupOrNone(HDFC_balance_re, text)

HDFCParser_extract_transaction_summary(text) == CaptionOrNone("Total Debits: ", HDFC_debits_re, text)

\* --------------------------------------------------------- ChaseParser

Chase_keywords == <<"Sapphire", "Freedom", "Ink", "Slate", "Amazon">>

Chase_last4_re ==
    PatternI(Alt(<<S("Account"), S("ending")>>, FALSE) \o Ws1 \o Alt(<<S("Number")>>, TRUE) \o Ws0
             \o Alt(<<S("in"), S(":")>>, TRUE) \o Ws0, Cls(Digit, 4, 4))

Chase_cycle_re ==
    PatternI(Lit(S("Opening/Closing")) \o Ws1 \o Lit(S("Date")) \o Ws1,
             Date22x \o Ws0 \o Lit(S("-")) \o Ws0 \o Date22x)

Chase_due_re ==
    PatternI(Lit(S("Payment")) \o Ws1 \o Lit(S("Due")) \o Ws1 \o Lit(S("Date")) \o Ws1, Datexxx)

Chase_balance_re ==
    PatternI(Lit(S("New")) \o Ws1 \o Lit(S("Balance")) \o Ws \o ManyLazy(Dot) \o Lit(S("$")), Amount)

Chase_purchases_re ==
    PatternI(Lit(S("Purchases")) \o Ws1 \o Alt(<<S("and Adjustments")>>, TRUE) \o Ws0 \o Lit(S("$")),
             Amount)

ChaseParser_extract_card_variant(text) == VariantOf("Chase ", Chase_keywords, "Chase Credit Card", text)

ChaseParser_extract_card_last_4(text) == GroupOrNone(Chase_last4_re, text)

ChaseParser_extract_billing_cycle(text) == GroupOrNone(Chase_cycle_re, text)

ChaseParser_extract_due_date(text) == GroupOrNone(Chase_due_re, text)

ChaseParser_extract_total_balance(text) == GroupOrNone(Chase_balance_re, text)

ChaseParser_extract_transaction_summary(text) ==
    CaptionOrNone("Total Purchases: $", Chase_purchases_re, text)

\* ----------------------------------------------------------- SBIParser

SBI_keywords == <<"Elite", "Prime", "SimplyClick", "SimplySave", "Aurum">>

SBI_last4_re == Pattern(Lit(S("XXXX")) \o Ws1, Cls(Digit, 4, 4))

SBI_cycle_re == PatternI(Lit(S("Statement")) \o Ws1 \o Lit(S("Date")) \o Ws0 \o Sep, Date224)

SBI_due_re ==
    PatternI(Lit(S("Payment")) \o Ws1 \o Lit(S("Due")) \o Ws1 \o Lit(S("Date")) \o Ws0 \o Sep, Date22x)

SBI_balance_re ==
    PatternI(Lit(S("Total")) \o Ws1 \o Lit(S("Amount")) \o Ws1 \o Lit(S("Due")) \o Ws0 \o Sep
             \o ManyLazy(Dot), Amount)

SBI_debits_re == PatternI(Lit(S("Debits")) \o Ws1, Amount)

SBIParser_extract_card_variant(text) == VariantOf("SBI ", SBI_keywords, "SBI Credit Card", text)

SBIParser_extract_card_last_4(text) == GroupOrNone(SBI_last4_re, text)

SBIParser_extract_billing_cycle(text) == CaptionOrNone("Statement generated on ", SBI_cycle_re, text)

SBIParser_extract_due_date(text) == GroupOrNone(SBI_due_re, text)

SBIParser_extract_total_balance(text) == GroupOrNone(SBI_balance_re, text)

SBIParser_extract_transaction_summary(text) == CaptionOrNone("Total Debits: ", SBI_debits_re, text)

\* ---------------------------------------------------------- AmexParser

Amex_keywords == <<"Platinum", "Gold", "Green", "EveryDay", "Blue Cash">>

Amex_last4_re == PatternI(Lit(S("ending")) \o Ws1 \o Lit(S("in")) \o Ws1, Cls(Digit, 4, 5))

Amex_cycle_re == PatternI(Lit(S("Closing")) \o Ws1 \o Lit(S("Date")) \o Ws1, DateMon)

Amex_due_re ==
    PatternI(Lit(S("Payment")) \o Ws1 \o Lit(S("Due")) \o Ws1 \o Lit(S("Date")) \o Ws1, DateMon)

Amex_balance_re ==
    PatternI(Lit(S("New")) \o Ws1 \o Lit(S("Balance")) \o Ws \o ManyLazy(Dot) \o Lit(S("$")), Amount)

Amex_charges_re ==
    PatternI(Lit(S("New")) \o Ws1 \o Lit(S("charges")) \o Ws \o ManyLazy(Dot) \o Lit(S("$")), Amount)

AmexParser_extract_card_variant(text) == VariantOf("Amex ", Amex_keywords, "Amex Card", text)

AmexParser_extract_card_last_4(text) == GroupOrNone(Amex_last4_re, text)

AmexParser_extract_billing_cycle(text) == CaptionOrNone("Closing Date: ", Amex_cycle_re, text)

AmexParser_extract_due_date(text) == GroupOrNone(Amex_due_re, text)

AmexParser_extract_total_balance(text) == GroupOrNone(Amex_balance_re, text)

AmexParser_extract_transaction_summary(text) == CaptionOrNone("New Charges: $", Amex_charges_re, text)

\* ---------------------------------------------------------- CitiParser

Citi_keywords == <<"Premier", "Prestige", "Double Cash", "Rewards", "Simplicity">>

Citi_last4_re ==
    PatternI(Alt(<<S("Account"), S("Card")>>, FALSE) \o Ws1 \o Many(Dot, 0), Cls(Digit, 4, 4))

Citi_cycle_re == PatternI(Lit(S("Statement")) \o Ws1 \o Lit(S("Date")) \o Ws1, Date224)

Citi_due_re ==
    PatternI(Lit(S("Payment")) \o Ws1 \o Lit(S("Due")) \o Ws1 \o Lit(S("Date")) \o Ws1, Date224)

Citi_balance_re ==
    PatternI(Lit(S("New")) \o Ws1 \o Lit(S("Balance")) \o Ws \o ManyLazy(Dot) \o Lit(S("$")), Amount)

Citi_purchases_re ==
    PatternI(Lit(S("Purchases")) \o Ws \o ManyLazy(Dot) \o Lit(S("$")), Amount)

CitiParser_extract_card_variant(text) == VariantOf("Citi ", Citi_keywords, "Citi Card", text)

CitiParser_extract_card_last_4(text) == GroupOrNone(Citi_last4_re, text)

CitiParser_extract_billing_cycle(text) == CaptionOrNone("Statement Date: ", Citi_cycle_re, text)

CitiParser_extract_due_date(text) == GroupOrNone(Citi_due_re, text)

CitiParser_extract_total_balance(text) == GroupOrNone(Citi_balance_re, text)

CitiParser_extract_transaction_summary(text) == CaptionOrNone("Purchases: $", Citi_purchases_re, text)

\* ------------------------------------------------- BaseStatementParser

Issuers == <<"HDFCParser", "ChaseParser", "SBIParser", "AmexParser", "CitiParser">>

IssuerSet == {Issuers[k] : k \in 1..Len(Issuers)}

\* the methods, dispatched on the class of the parser; a class that does
\* not override a method runs the base class's
get_bank_name(cls) ==
    CASE cls = "HDFCParser" -> S("HDFC Bank")
      [] cls = "ChaseParser" -> S("Chase Bank")
      [] cls = "SBIParser" -> S("SBI Card")
      [] cls = "AmexParser" -> S("American Express")
      [] cls = "CitiParser" -> S("Citibank")
      [] OTHER -> S("Unknown Bank")

extract_card_variant(cls, text) ==
    CASE cls = "HDFCParser" -> HDFCParser_extract_card_variant(text)
      [] cls = "ChaseParser" -> ChaseParser_extract_card_variant(text)
      [] cls = "SBIParser" -> SBIParser_extract_card_variant(text)
      [] cls = "AmexParser" -> AmexParser_extract_card_variant(text)
      [] cls = "CitiParser" -> CitiParser_extract_card_variant(text)
      [] OTHER -> S("Standard Credit Card")

extract_card_last_4(cls, text) ==
    CASE cls = "HDFCParser" -> HDFCParser_extract_card_last_4(text)
      [] cls = "ChaseParser" -> ChaseParser_extract_card_last_4(text)
      [] cls = "SBIParser" -> SBIParser_extract_card_last_4(text)
      [] cls = "AmexParser" -> AmexParser_extract_card_last_4(text)
      [] cls = "CitiParser" -> CitiParser_extract_card_last_4(text)
      [] OTHER -> None

extract_billing_cycle(cls, text) ==
    CASE cls = "HDFCParser" -> HDFCParser_extract_billing_cycle(text)
      [] cls = "ChaseParser" -> ChaseParser_extract_billing_cycle(text)
      [] cls = "SBIParser" -> SBIParser_extract_billing_cycle(text)
      [] cls = "AmexParser" -> AmexParser_extract_billing_cycle(text)
      [] cls = "CitiParser" -> CitiParser_extract_billing_cycle(text)
      [] OTHER -> None

extract_due_date(cls, text) ==
    CASE cls = "HDFCParser" -> HDFCParser_extract_due_date(text)
      [] cls = "ChaseParser" -> ChaseParser_extract_due_date(text)
      [] cls = "SBIParser" -> SBIParser_extract_due_date(text)
      [] cls = "AmexParser" -> AmexParser_extract_due_date(text)
      [] cls = "CitiParser" -> CitiParser_extract_due_date(text)
      [] OTHER -> None

extract_total_balance(cls, text) ==
    CASE cls = "HDFCParser" -> HDFCParser_extract_total_balance(text)
      [] cls = "ChaseParser" -> ChaseParser_extract_total_balance(text)
      [] cls = "SBIParser" -> SBIParser_extract_total_balance(text)
      [] cls = "AmexParser" -> AmexParser_extract_total_balance(text)
      [] cls = "CitiParser" -> CitiParser_extract_total_balance(text)
      [] OTHER -> None

extract_transaction_summary(cls, text) ==
    CASE cls = "HDFCParser" -> HDFCParser_extract_transaction_summary(text)
      [] cls = "ChaseParser" -> ChaseParser_extract_transaction_summary(text)
      [] cls = "SBIParser" -> SBIParser_extract_transaction_summary(text)
      [] cls = "AmexParser" -> AmexParser_extract_transaction_summary(text)
      [] cls = "CitiParser" -> CitiParser_extract_transaction_summary(text)
      [] OTHER -> S("Summary not detected")

\* the keys of the mapping BaseStatementParser.parse builds, in its order
Keys == <<"bank_name", "card_variant", "card_last_4", "billing_cycle",
          "payment_due_date", "total_balance", "transaction_info">>

\* the dict display with the six fields its docstring counts
parse_six_fields(cls, text) ==
    [bank_name |-> get_bank_name(cls),
     card_variant |-> extract_card_variant(cls, text),
     card_last_4 |-> extract_card_last_4(cls, text),
     billing_cycle |-> extract_billing_cycle(cls, text),
     payment_due_date |-> extract_due_date(cls, text),
     total_balance |-> extract_total_balance(cls, text)]

\* BaseStatementParser.parse: the dict display, evaluated key by key
parse(cls, text) ==
    [bank_name |-> get_bank_name(cls),
     card_variant |-> extract_card_variant(cls, text),
     card_last_4 |-> extract_card_last_4(cls, text),
     billing_cycle |-> extract_billing_cycle(cls, text),
     payment_due_date |-> extract_due_date(cls, text),
     total_balance |-> extract_total_balance(cls, text),
     transaction_info |-> extract_transaction_summary(cls, text)]

\* ------------------------------------------------------------ documents
\* What pdfplumber gives for a path: open raises (open is the exception) or
\* gives a document (open is <<>>) whose pages each give a text (the
\* page's fragments joined by blanks), give None, or raise on extract_text().

NCalls == 3

MaxSigs == 2

MaxKeywords == 2

MaxFields == 2

MaxDocPages == 3

Calls == 1..NCalls

\* the exception messages of the model's collaborator failures
ExcMessages == {"No such file or directory", "No /Root object", "page stream is corrupt",
                "unsupported operand type(s) for +: 'NoneType' and 'str'",
                "'NoneType' object has no attribute 'group'"}

OpenFailures == {Raise("FileNotFoundError", "No such file or directory"),
                 Raise("PDFSyntaxError", "No /Root object")}

TextPage(frags) == [kind |-> "text", frags |-> frags, exc |-> <<>>]

NonePage == [kind |-> "none", frags |-> <<>>, exc |-> <<>>]

RaisingPage == [kind |-> "raises", frags |-> <<>>, exc |-> Raise("PSEOF", "page stream is corrupt")]

Document(pages) == [open |-> <<>>, pages |-> pages]

SeqsUpTo(set, n) == UNION {[1..k -> set] : k \in 0..n}

\* words that are, or look like, an issuer's signature
SigFrags == {"HDFC", "H.D.F.C", "hdfc", "Chase", "JPMorgan", "SBI Card", "State Bank of India",
             "American Express", "AMEX", "Amex", "Citi", "Purchases"}

\* one signature of each issuer, heading the statements below
HeadFrags == [c \in IssuerSet |->
    CASE c = "HDFCParser" -> "HDFC"
      [] c = "ChaseParser" -> "JPMorgan"
      [] c = "SBIParser" -> "SBI Card"
      [] c = "AmexParser" -> "American Express"
      [] c = "CitiParser" -> "Citi"]

KeywordFrags == [c \in IssuerSet |->
    CASE c = "HDFCParser" -> {"Infinia", "Regalia", "Millennia", "MoneyBack", "Diners Club",
                              "Business MoneyBack", "regalia"}
      [] c = "ChaseParser" -> {"Sapphire", "Freedom", "Ink", "Slate", "Amazon", "thinking", "FREEDOM"}
      [] c = "SBIParser" -> {"Elite", "Prime", "SimplyClick", "SimplySave", "Aurum", "PRIME"}
      [] c = "AmexParser" -> {"Platinum", "Gold", "Green", "EveryDay", "Blue Cash", "gold"}
      [] c = "CitiParser" -> {"Premier", "Prestige", "Double Cash", "Rewards", "Simplicity", "rewards"}]

FieldFrags == [c \in IssuerSet |->
    CASE c = "HDFCParser" -> {"XXXXXXXX1234", "Statement Date: 01/05/2024", "Payment Due Date: 20/05/2024",
                              "Total Amount Due 12,345.67", "Debits 1,000.00"}
      [] c = "ChaseParser" -> {"Account ending in 1234", "Opening/Closing Date 01/01/22 - 01/31/22",
                               "Payment Due Date 1/5/22", "New Balance $500.00", "Purchases $1,200.50"}
      [] c = "SBIParser" -> {"XXXX 1234", "Statement Date: 01/05/2024", "Payment Due Date: 20/05/24",
                             "Total Amount Due 12,345.67", "Debits 1,000.00"}
      [] c = "AmexParser" -> {"ending in 12345", "Closing Date Jan 5, 2024", "Payment Due Date Feb 01, 2024",
                              "New Balance $500.00", "New charges $45.00"}
      [] c = "CitiParser" -> {"Card 1234 5678", "Statement Date 01/05/2024", "Payment Due Date 20/05/2024",
                              "New Balance $500.00", "Purchases $1.00"}]

\* pages of the many-page documents
PoolPages == {TextPage(<<"HDFC">>), TextPage(<<"HD">>),
              TextPage(<<"FC Payment Due">>), TextPage(<<"Date: 20/05/2024">>),
              NonePage, RaisingPage}

RouterDocs == {Document(<<TextPage(fs)>>) : fs \in SeqsUpTo(SigFrags, MaxSigs)}

KeywordDocs == UNION {{Document(<<TextPage(<<HeadFrags[c]>> \o fs)>>) :
                          fs \in SeqsUpTo(KeywordFrags[c], MaxKeywords)} : c \in IssuerSet}

FieldDocs == UNION {{Document(<<TextPage(<<HeadFrags[c]>> \o fs)>>) :
                        fs \in SeqsUpTo(FieldFrags[c], MaxFields)} : c \in IssuerSet}

PageDocs == {Document(ps) : ps \in SeqsUpTo(PoolPages, MaxDocPages)}

FailDocs == {[open |-> e, pages |-> <<>>] : e \in OpenFailures}

Catalogue == RouterDocs \cup KeywordDocs \cup FieldDocs \cup PageDocs \cup FailDocs

\* the documents parsed concurrently
SharedDocs == <<Document(<<TextPage(<<"HDFC">>), TextPage(<<"Regalia">>)>>),
                Document(<<TextPage(<<"HDFC">>), TextPage(<<"Regalia">>), TextPage(<<"Citi">>)>>),
                Document(<<TextPage(<<"Citi">>)>>)>>

\* The ways to hand the shared documents to the calls.  The calls run the
\* same code, so any assignment is one of these with the calls renamed.
SharedAssignments ==
    {f \in [Calls -> 1..Len(SharedDocs)] : \A c \in Calls : c > 1 => f[c - 1] <= f[c]}

NoDoc == [open |-> <<>>, pages |-> <<>>, absent |-> TRUE]

\* page.extract_text() of a text page
RECURSIVE JoinFrags(_, _)
JoinFrags(frags, k) ==
    IF k > Len(frags) THEN <<>>
    ELSE (IF k > 1 THEN <<" ">> ELSE <<>>) \o S(frags[k]) \o JoinFrags(frags, k + 1)

extract_text(page) == JoinFrags(page.frags, 1)

\* ---------------------------------------------------------------- state

VARIABLES
    doc,           \* doc[c]: the document at the pdf_path of call c
    pc,            \* pc[c]: where call c of parse_credit_card_statement is
    i,             \* i[c]: the loop variable of the page loop
    text_content,  \* text_content[c]: the local of call c
    parser,        \* parser[c]: the parser instance of call c, its class and self.text
    invoked,       \* invoked[c]: the parser methods call c has run, in order
    exc,           \* exc[c]: the exception in flight in call c
    result         \* result[c]: what call c returned

vars == <<doc, pc, i, text_content, parser, invoked, exc, result>>

NoParser == [cls |-> "none", text |-> <<>>]

NoResult == [returned |-> FALSE]

\* min(2, len(pdf.pages)): the pages the loop reads
MaxPagesRead == 2

\* range(len(pdf.pages)): every page
PagesRead_every_page(d) == Len(d.pages)

PagesRead(d) == Min(MaxPagesRead, Len(d.pages))

\* the classes `except OSError` would catch
ExceptionClasses_os_errors == {"FileNotFoundError"}

\* the exception classes `except Exception` catches: every class raised here
\* derives from Exception
ExceptionClasses == {"FileNotFoundError", "PDFSyntaxError", "PSEOF", "TypeError", "AttributeError"}

\* the chain with Chase's signatures looked for in the text as it is
Router_chase_case_sensitive(text) ==
    IF Contains(text, S("HDFC")) \/ Contains(text, S("H.D.F.C")) THEN "HDFCParser"
    ELSE IF Contains(text, S("CHASE")) \/ Contains(text, S("JPMORGAN")) THEN "ChaseParser"
    ELSE IF Contains(text, S("SBI Card")) \/ Contains(text, S("State Bank of India")) THEN "SBIParser"
    ELSE IF Contains(text, S("American Express")) \/ Contains(text, S("AMEX")) THEN "AmexParser"
    ELSE IF Contains(text, S("Citi")) \/ Contains(text, S("Citibank")) THEN "CitiParser"
    ELSE "none"

\* the chain ending in the base class instead of the error
Router_generic_fallback(text) ==
    IF Contains(text, S("HDFC")) \/ Contains(text, S("H.D.F.C")) THEN "HDFCParser"
    ELSE IF Contains(Upper(text), S("CHASE")) \/ Contains(Upper(text), S("JPMORGAN")) THEN "ChaseParser"
    ELSE IF Contains(text, S("SBI Card")) \/ Contains(text, S("State Bank of India")) THEN "SBIParser"
    ELSE IF Contains(text, S("American Express")) \/ Contains(text, S("AMEX")) THEN "AmexParser"
    ELSE IF Contains(text, S("Citi")) \/ Contains(text, S("Citibank")) THEN "CitiParser"
    ELSE "BaseStatementParser"

\* the router's if/elif chain: the class constructed, or "none"
Router(text) ==
    IF Contains(text, S("HDFC")) \/ Contains(text, S("H.D.F.C")) THEN "HDFCParser"
    ELSE IF Contains(Upper(text), S("CHASE")) \/ Contains(Upper(text), S("JPMORGAN")) THEN "ChaseParser"
    ELSE IF Contains(text, S("SBI Card")) \/ Contains(text, S("State Bank of India")) THEN "SBIParser"
    ELSE IF Contains(text, S("American Express")) \/ Contains(text, S("AMEX")) THEN "AmexParser"
    ELSE IF Contains(text, S("Citi")) \/ Contains(text, S("Citibank")) THEN "CitiParser"
    ELSE "none"

BankNotDetected == [error |-> S("Bank not detected. Supported: HDFC, Chase, SBI, Amex, Citi")]

\* {"error": f"Error reading PDF: {str(e)}"}
ErrorReadingPDF(e) == [error |-> S("Error reading PDF: ") \o S(e[3])]

\* the first exception raised while the dict display r is evaluated, or <<>>
RECURSIVE FirstRaise(_, _)
FirstRaise(r, k) ==
    IF k > Len(Keys) THEN <<>>
    ELSE IF Keys[k] \in DOMAIN r /\ IsRaise(r[Keys[k]]) THEN r[Keys[k]]
    ELSE FirstRaise(r, k + 1)

Init ==
    /\ \/ \E d \in Catalogue : doc = [c \in Calls |-> IF c = 1 THEN d ELSE NoDoc]
       \/ \E f \in SharedAssignments : doc = [c \in Calls |-> SharedDocs[f[c]]]
    /\ pc = [c \in Calls |-> IF doc[c] = NoDoc THEN "idle" ELSE "open"]
    /\ i = [c \in Calls |-> 0]
    /\ text_content = [c \in Calls |-> <<>>]
    /\ parser = [c \in Calls |-> NoParser]
    /\ invoked = [c \in Calls |-> <<>>]
    /\ exc = [c \in Calls |-> <<>>]
    /\ result = [c \in Calls |-> NoResult]

\* text_content = "" and pdfplumber.open(pdf_path)
Open(c) ==
    /\ pc[c] = "open"
    /\ IF IsRaise(doc[c].open)
       THEN /\ exc' = [exc EXCEPT ![c] = doc[c].open]
            /\ pc' = [pc EXCEPT ![c] = "except"]
       ELSE /\ pc' = [pc EXCEPT ![c] = "loop"]
            /\ UNCHANGED exc
    /\ text_content' = [text_content EXCEPT ![c] = <<>>]
    /\ i' = [i EXCEPT ![c] = 0]
    /\ UNCHANGED <<doc, parser, invoked, result>>

\* one turn of the loop with text_content a module-level variable: every
\* call sees what this one wrote
ReadPage_shared_text(c) ==
    /\ pc[c] = "loop"
    /\ i[c] < PagesRead(doc[c])
    /\ LET page == doc[c].pages[i[c] + 1] IN
       CASE page.kind = "text" ->
              /\ text_content' = [k \in Calls |-> text_content[c] \o extract_text(page) \o <<NL>>]
              /\ i' = [i EXCEPT ![c] = @ + 1]
              /\ UNCHANGED <<pc, exc>>
         [] page.kind = "none" ->
              /\ exc' = [exc EXCEPT ![c] =
                            Raise("TypeError", "unsupported operand type(s) for +: 'NoneType' and 'str'")]
              /\ pc' = [pc EXCEPT ![c] = "except"]
              /\ UNCHANGED <<text_content, i>>
         [] page.kind = "raises" ->
              /\ exc' = [exc EXCEPT ![c] = page.exc]
              /\ pc' = [pc EXCEPT ![c] = "except"]
              /\ UNCHANGED <<text_content, i>>
    /\ UNCHANGED <<doc, parser, invoked, result>>

\* one turn of the loop: text_content += pdf.pages[i].extract_text() + "\n"
ReadPage(c) ==
    /\ pc[c] = "loop"
    /\ i[c] < PagesRead(doc[c])
    /\ LET page == doc[c].pages[i[c] + 1] IN
       CASE page.kind = "text" ->
              /\ text_content' = [text_content EXCEPT ![c] = @ \o extract_text(page) \o <<NL>>]
              /\ i' = [i EXCEPT ![c] = @ + 1]
              /\ UNCHANGED <<pc, exc>>
         [] page.kind = "none" ->
              /\ exc' = [exc EXCEPT ![c] =
                            Raise("TypeError", "unsupported operand type(s) for +: 'NoneType' and 'str'")]
              /\ pc' = [pc EXCEPT ![c] = "except"]
              /\ UNCHANGED <<text_content, i>>
         [] page.kind = "raises" ->
              /\ exc' = [exc EXCEPT ![c] = page.exc]
              /\ pc' = [pc EXCEPT ![c] = "except"]
              /\ UNCHANGED <<text_content, i>>
    /\ UNCHANGED <<doc, parser, invoked, result>>

\* the router: construct the parser of the first issuer detected, or return
\* the "Bank not detected" error
Route(c) ==
    /\ pc[c] = "loop"
    /\ i[c] >= PagesRead(doc[c])
    /\ LET cls == Router(text_content[c]) IN
       IF cls = "none"
       THEN /\ result' = [result EXCEPT ![c] = BankNotDetected]
            /\ pc' = [pc EXCEPT ![c] = "done"]
            /\ UNCHANGED parser
       ELSE /\ parser' = [parser EXCEPT ![c] = [cls |-> cls, text |-> text_content[c]]]
            /\ pc' = [pc EXCEPT ![c] = "parse"]
            /\ UNCHANGED result
    /\ UNCHANGED <<doc, i, text_content, invoked, exc>>

\* return parser.parse()
Parse(c) ==
    /\ pc[c] = "parse"
    /\ LET r == parse(parser[c].cls, parser[c].text)
           e == FirstRaise(r, 1) IN
       IF IsRaise(e)
       THEN /\ exc' = [exc EXCEPT ![c] = e]
            /\ pc' = [pc EXCEPT ![c] = "except"]
            /\ UNCHANGED result
       ELSE /\ result' = [result EXCEPT ![c] = r]
            /\ pc' = [pc EXCEPT ![c] = "done"]
            /\ UNCHANGED exc
    /\ invoked' = [invoked EXCEPT ![c] = <<"get_bank_name", "extract_card_variant", "extract_card_last_4",
                                            "extract_billing_cycle", "extract_due_date",
                                            "extract_total_balance", "extract_transaction_summary">>]
    /\ UNCHANGED <<doc, i, text_content, parser>>

\* except Exception as e: return {"error": ...}; any other exception leaves
\* the call
Except(c) ==
    /\ pc[c] = "except"
    /\ IF exc[c][2] \in ExceptionClasses
       THEN /\ result' = [result EXCEPT ![c] = ErrorReadingPDF(exc[c])]
            /\ pc' = [pc EXCEPT ![c] = "done"]
       ELSE /\ pc' = [pc EXCEPT ![c] = "raised"]
            /\ UNCHANGED result
    /\ UNCHANGED <<doc, i, text_content, parser, invoked, exc>>

Next == \E c \in Calls : Open(c) \/ ReadPage(c) \/ Route(c) \/ Parse(c) \/ Except(c)

Spec == Init /\ [][Next]_vars

\* =============================================================== claims

Done(c) == pc[c] = "done"

KeySet == {Keys[k] : k \in 1..Len(Keys)}

\* call c returned the mapping of a parser
Extracted(c) == Done(c) /\ DOMAIN result[c] = KeySet

\* call c got its text: the document opened and every page read gave a text
Acquired(c) ==
    /\ pc[c] \in {"parse", "done"}
    /\ ~IsRaise(doc[c].open)
    /\ \A k \in 1..Min(2, Len(doc[c].pages)) : doc[c].pages[k].kind = "text"

\* lit occurs in s when letter case is ignored
ContainsCI(s, lit) ==
    \E pos \in 1..(Len(s) - Len(lit) + 1) :
        \A k \in 1..Len(lit) : UpperChar[s[pos + k - 1]] = UpperChar[lit[k]]

\* the signatures of issuer k (its place in Issuers), as the claim lists them
HasSignature(k, text) ==
    CASE k = 1 -> Contains(text, S("HDFC")) \/ Contains(text, S("H.D.F.C"))
      [] k = 2 -> ContainsCI(text, S("CHASE")) \/ ContainsCI(text, S("JPMORGAN"))
      [] k = 3 -> Contains(text, S("SBI Card")) \/ Contains(text, S("State Bank of India"))
      [] k = 4 -> Contains(text, S("American Express")) \/ Contains(text, S("AMEX"))
      [] k = 5 -> Contains(text, S("Citi")) \/ Contains(text, S("Citibank"))

Signed(text) == {k \in 1..Len(Issuers) : HasSignature(k, text)}

\* C1: the router selects the profile of the first issuer, in the order
\* HDFC, Chase, SBI, Amex, Citi, one of whose signatures occurs in the text;
\* with one issuer's signature that issuer, with two the earlier one, with
\* none no profile.
C1_RouterFirstSignature ==
    \A c \in Calls :
        (Done(c) /\ Acquired(c)) =>
            LET has == Signed(text_content[c]) IN
            IF has = {} THEN parser[c] = NoParser
            ELSE parser[c].cls = Issuers[Least(has)]

\* a text with the signatures of two issuers, a later-registered one among
\* them, is routed to the earlier one
C1_Witness ==
    \E c \in Calls :
        /\ Done(c) /\ Acquired(c)
        /\ Signed(text_content[c]) = {2, 5}
        /\ parser[c].cls = "ChaseParser"

\* C2: a call returns a mapping with exactly the seven keys, each value a
\* string or the not-found marker, or a mapping with the single key error;
\* never a mix, and nothing before it returns.
C2_ResultShape ==
    \A c \in Calls :
        IF Done(c)
        THEN \/ /\ DOMAIN result[c] = KeySet
                /\ \A key \in KeySet :
                      \/ result[c][key] = None
                      \/ \A j \in 1..Len(result[c][key]) : result[c][key][j] \in Alphabet
             \/ DOMAIN result[c] = {"error"}
        ELSE result[c] = NoResult

\* a seven-key result that holds both a string and the not-found marker
C2_Witness ==
    \E c \in Calls :
        /\ Extracted(c)
        /\ result[c].card_last_4 = None
        /\ result[c].payment_due_date # None

\* C3: a text acquired with no issuer's signature in it (the empty text of a
\* zero-page document too) returns the "Bank not detected" error, no parser
\* is constructed and no method of one runs; and no result names "Unknown
\* Bank".
C3_NoIssuerNoProfile ==
    \A c \in Calls :
        /\ (Done(c) /\ Acquired(c) /\ Signed(text_content[c]) = {}) =>
              /\ result[c] = [error |-> S("Bank not detected. Supported: HDFC, Chase, SBI, Amex, Citi")]
              /\ parser[c] = NoParser
              /\ invoked[c] = <<>>
        /\ parser[c].cls \in IssuerSet \cup {"none"}
        /\ "bank_name" \in DOMAIN result[c] => result[c].bank_name # S("Unknown Bank")

\* a zero-page document, opened, ends in the "Bank not detected" error
C3_Witness ==
    \E c \in Calls :
        /\ Done(c) /\ Acquired(c)
        /\ Len(doc[c].pages) = 0
        /\ text_content[c] = <<>>
        /\ DOMAIN result[c] = {"error"}

\* the message of the first failure of acquiring d's text, or "" when there
\* is none: open's, else that of the first of the first two pages that
\* raises or gives None
FirstFailure(d) ==
    IF IsRaise(d.open) THEN d.open[3]
    ELSE LET bad == {k \in 1..Min(2, Len(d.pages)) : d.pages[k].kind # "text"} IN
         IF bad = {} THEN ""
         ELSE IF d.pages[Least(bad)].kind = "raises" THEN d.pages[Least(bad)].exc[3]
         ELSE "unsupported operand type(s) for +: 'NoneType' and 'str'"

\* C4: when opening the document or extracting one of its first two pages
\* fails, the call returns {error: "Error reading PDF: " + the failure's
\* message}; and no exception leaves a call.
C4_AcquisitionError ==
    \A c \in Calls :
        /\ pc[c] # "raised"
        /\ (Done(c) /\ FirstFailure(doc[c]) # "") =>
              result[c] = [error |-> S("Error reading PDF: ") \o S(FirstFailure(doc[c]))]
        /\ FirstFailure(doc[c]) # "" => pc[c] # "parse" /\ parser[c] = NoParser

\* a document whose first page names an issuer and whose second page fails
\* ends in the error
C4_Witness ==
    \E c \in Calls :
        /\ Done(c)
        /\ Len(doc[c].pages) >= 2
        /\ doc[c].pages[1] = TextPage(<<"HDFC">>)
        /\ doc[c].pages[2].kind # "text"
        /\ DOMAIN result[c] = {"error"}

\* the pattern and the caption of the rule of class cls for a key
RuleOf(cls, key) ==
    CASE cls = "HDFCParser" ->
           (CASE key = "card_last_4" -> [re |-> HDFC_last4_re, caption |-> ""]
              [] key = "billing_cycle" -> [re |-> HDFC_cycle_re, caption |-> "Ends on "]
              [] key = "payment_due_date" -> [re |-> HDFC_due_re, caption |-> ""]
              [] key = "total_balance" -> [re |-> HDFC_balance_re, caption |-> ""]
              [] key = "transaction_info" -> [re |-> HDFC_debits_re, caption |-> "Total Debits: "])
      [] cls = "ChaseParser" ->
           (CASE key = "card_last_4" -> [re |-> Chase_last4_re, caption |-> ""]
              [] key = "billing_cycle" -> [re |-> Chase_cycle_re, caption |-> ""]
              [] key = "payment_due_date" -> [re |-> Chase_due_re, caption |-> ""]
              [] key = "total_balance" -> [re |-> Chase_balance_re, caption |-> ""]
              [] key = "transaction_info" -> [re |-> Chase_purchases_re, caption |-> "Total Purchases: $"])
      [] cls = "SBIParser" ->
           (CASE key = "card_last_4" -> [re |-> SBI_last4_re, caption |-> ""]
              [] key = "billing_cycle" -> [re |-> SBI_cycle_re, caption |-> "Statement generated on "]
              [] key = "payment_due_date" -> [re |-> SBI_due_re, caption |-> ""]
              [] key = "total_balance" -> [re |-> SBI_balance_re, caption |-> ""]
              [] key = "transaction_info" -> [re |-> SBI_debits_re, caption |-> "Total Debits: "])
      [] cls = "AmexParser" ->
           (CASE key = "card_last_4" -> [re |-> Amex_last4_re, caption |-> ""]
              [] key = "billing_cycle" -> [re |-> Amex_cycle_re, caption |-> "Closing Date: "]
              [] key = "payment_due_date" -> [re |-> Amex_due_re, caption |-> ""]
              [] key = "total_balance" -> [re |-> Amex_balance_re, caption |-> ""]
              [] key = "transaction_info" -> [re |-> Amex_charges_re, caption |-> "New Charges: $"])
      [] cls = "CitiParser" ->
           (CASE key = "card_last_4" -> [re |-> Citi_last4_re, caption |-> ""]
              [] key = "billing_cycle" -> [re |-> Citi_cycle_re, caption |-> "Statement Date: "]
              [] key = "payment_due_date" -> [re |-> Citi_due_re, caption |-> ""]
              [] key = "total_balance" -> [re |-> Citi_balance_re, caption |-> ""]
              [] key = "transaction_info" -> [re |-> Citi_purchases_re, caption |-> "Purchases: $"])

RuleKeys == {"card_last_4", "billing_cycle", "payment_due_date", "total_balance", "transaction_info"}

\* the pattern matches nowhere in text
Absent(p, text) == \A start \in 1..(Len(text) + 1) : ~MatchFrom(p, 1, text, start, start).ok

\* the caption of a rule and what its group captured
Captioned(rule, text, m) == (IF rule.caption = "" THEN <<>> ELSE S(rule.caption)) \o Group1(text, m)

\* C5: once an issuer is detected the call returns the seven-key mapping;
\* a rule whose pattern is absent from the text gives the not-found marker
\* for its field, and every field holds what its own pattern produces.  Only
\* an acquisition failure and an unrecognized issuer give an error.
C5_FieldNotFoundIsNotAnError ==
    \A c \in Calls :
        /\ parser[c] # NoParser => pc[c] \in {"parse", "done"} /\ exc[c] = <<>>
        /\ (Done(c) /\ parser[c] # NoParser) =>
              /\ DOMAIN result[c] = KeySet
              /\ \A key \in RuleKeys :
                    LET rule == RuleOf(parser[c].cls, key)
                        m == Search(rule.re, text_content[c]) IN
                    IF m.ok THEN result[c][key] = Captioned(rule, text_content[c], m)
                    ELSE Absent(rule.re, text_content[c]) /\ result[c][key] = None
        /\ (Done(c) /\ DOMAIN result[c] = {"error"}) =>
              \/ FirstFailure(doc[c]) # ""
              \/ Acquired(c) /\ Signed(text_content[c]) = {}

\* an HDFC statement with a total but no due date: one field not found,
\* another found
C5_Witness ==
    \E c \in Calls :
        /\ Extracted(c)
        /\ parser[c].cls = "HDFCParser"
        /\ Absent(HDFC_due_re, text_content[c])
        /\ result[c].payment_due_date = None
        /\ result[c].total_balance = S("12,345.67")

\* the prefix, the keywords and the fallback label of each issuer's variant
VariantTable(cls) ==
    CASE cls = "HDFCParser" -> [prefix |-> "HDFC ", keywords |-> HDFC_keywords, fallback |-> "HDFC Credit Card"]
      [] cls = "ChaseParser" -> [prefix |-> "Chase ", keywords |-> Chase_keywords, fallback |-> "Chase Credit Card"]
      [] cls = "SBIParser" -> [prefix |-> "SBI ", keywords |-> SBI_keywords, fallback |-> "SBI Credit Card"]
      [] cls = "AmexParser" -> [prefix |-> "Amex ", keywords |-> Amex_keywords, fallback |-> "Amex Card"]
      [] cls = "CitiParser" -> [prefix |-> "Citi ", keywords |-> Citi_keywords, fallback |-> "Citi Card"]

\* the places in the list of the keywords the text contains, case ignored
Named(cls, text) ==
    {k \in 1..Len(VariantTable(cls).keywords) : ContainsCI(text, S(VariantTable(cls).keywords[k]))}

\* C6: card_variant is never the not-found marker: it is the issuer prefix
\* and the first keyword of the issuer's list that the text contains, case
\* ignored, and the issuer's fallback label when it contains none.
C6_CardVariant ==
    \A c \in Calls :
        Extracted(c) =>
            LET t == VariantTable(parser[c].cls)
                named == Named(parser[c].cls, text_content[c]) IN
            /\ result[c].card_variant # None
            /\ result[c].card_variant =
                  IF named = {} THEN S(t.fallback) ELSE S(t.prefix) \o S(t.keywords[Least(named)])

\* a text naming two keywords, one of them not in the list's letter case
C6_Witness ==
    \E c \in Calls :
        /\ Extracted(c)
        /\ parser[c].cls = "HDFCParser"
        /\ Named("HDFCParser", text_content[c]) = {1, 2}
        /\ ~Contains(text_content[c], S("Regalia"))
        /\ result[c].card_variant = S("HDFC ") \o S("Infinia")

IsDigit(ch) == ch \in Digit

\* the digits of a value
Digits(v) == SelectSeq(v, IsDigit)

\* C7: a field rule that finds a match in a text finds one, capturing the
\* same digits, in the text with its letters changed to upper and to lower
\* case.
C7_FieldRulesIgnoreCase ==
    \A c \in Calls :
        Extracted(c) =>
            \A key \in RuleKeys :
                \A t \in {Upper(text_content[c]), Lower(text_content[c])} :
                    LET here == result[c][key]
                        there == parse(parser[c].cls, t)[key] IN
                    here # None => there # None /\ Digits(there) = Digits(here)

\* C8: calls on the same document return the same result, whatever other
\* calls run between their steps; each works on a text, a parser and a result
\* of its own.
C8_CallsIndependent ==
    \A c1, c2 \in Calls :
        (Done(c1) /\ Done(c2) /\ doc[c1] = doc[c2]) =>
            /\ result[c1] = result[c2]
            /\ text_content[c1] = text_content[c2]
            /\ parser[c1] = parser[c2]

\* two calls on one document and a third on another have all returned
C8_Witness ==
    \E c1, c2, c3 \in Calls :
        /\ c1 # c2
        /\ Done(c1) /\ Done(c2) /\ Done(c3)
        /\ doc[c1] = doc[c2]
        /\ doc[c3] # doc[c1]
        /\ Extracted(c1) /\ Extracted(c3)
        /\ result[c3] # result[c1]

\* the texts of pages, each followed by a newline
RECURSIVE Blob(_)
Blob(pages) ==
    IF pages = <<>> THEN <<>>
    ELSE extract_text(Head(pages)) \o <<NL>> \o Blob(Tail(pages))

FirstTwo(d) == SubSeq(d.pages, 1, Min(2, Len(d.pages)))

\* C9: the text routed and searched is made of the first min(2, pageCount)
\* pages in page order, a newline after each; documents that agree on their
\* first two pages return the same result; a document with an issuer's
\* signature on page 3 or later only returns "Bank not detected".
C9_FirstTwoPagesOnly ==
    /\ \A c \in Calls :
          /\ Acquired(c) => text_content[c] = Blob(FirstTwo(doc[c]))
          /\ (/\ Done(c) /\ Acquired(c)
              /\ Len(doc[c].pages) > 2
              /\ Signed(Blob(FirstTwo(doc[c]))) = {}) => result[c] = BankNotDetected
    /\ \A c1, c2 \in Calls :
          (Done(c1) /\ Done(c2) /\ doc[c1].open = doc[c2].open /\ FirstTwo(doc[c1]) = FirstTwo(doc[c2]))
              => result[c1] = result[c2]

\* a document with HDFC's signature on page 3 only, its pages 1 and 2 read
C9_Witness ==
    \E c \in Calls :
        /\ Done(c) /\ Acquired(c)
        /\ Len(doc[c].pages) >= 3
        /\ doc[c].pages[3] = TextPage(<<"HDFC">>)
        /\ text_content[c] = S("HD") \o <<NL>> \o S("FC Payment Due") \o <<NL>>
        /\ result[c] = BankNotDetected

\* C10: every keyword of an issuer's list can be returned: a text that
\* contains keyword K, and no other keyword of the list but those contained
\* in K itself, gets the issuer prefix followed by K.
C10_EveryKeywordReachable ==
    \A c \in Calls :
        Extracted(c) =>
            LET t == VariantTable(parser[c].cls)
                named == Named(parser[c].cls, text_content[c]) IN
            \A k \in named :
                (\A j \in named : ContainsCI(S(t.keywords[k]), S(t.keywords[j])))
                    => result[c].card_variant = S(t.prefix) \o S(t.keywords[k])

====
